---- MODULE Spec2Model ----
(***************************************************************************)
(* A model of scripts/bto_dwi_prep.py: the three-stage DWI preparation     *)
(* pipeline (step 1 combine/copy/extract b0, step 2 TOPUP input assembly,  *)
(* step 3 EDDY input assembly and optional execution).                     *)
(*                                                                         *)
(* The file system is the program's state.  A file is a record             *)
(* [ex |-> BOOLEAN, c |-> content]; a path that does not exist has         *)
(* ex = FALSE.  An image is [ndim, vols] where vols is the sequence of     *)
(* volume labels along the 4th axis; the spatial grid is not modelled      *)
(* (runs of one session are taken to share it).                            *)
(***************************************************************************)
EXTENDS Integers, Sequences, FiniteSets, TLC

VARIABLES
    raw,        \* raw[s]: the files of <bids>/sub-*/ses-*/dwi of session s
    drv,        \* drv[s]: the files of <bids>/derivatives/sub-*/ses-*/dwi
    derivDir,   \* <bids>/derivatives exists
    installed,  \* the tools shutil.which finds in this invocation
    pc,         \* where the current invocation of main() is
    cur,        \* the session the running stage's loop is at
    mode,       \* -m of the current invocation
    execute,    \* --execute of the current invocation
    log,        \* what the current invocation did so far, in order
    exc,        \* the exception that ended the invocation, "none" otherwise
    firstFail,  \* the first external command that exited non-zero, <<>> if none
    prevLog,    \* the log of the previous invocation if it ended normally and
                \* the raw data was not changed since, <<>> otherwise
    runNo,      \* invocations started so far
    edits,      \* changes made to the raw data between invocations
    call        \* harness for the pure helpers: [fn, arg, res]

pvars == <<raw, drv, derivDir, installed, pc, cur, mode, execute, log, exc,
           firstFail, prevLog, runNo, edits>>
vars == <<raw, drv, derivDir, installed, pc, cur, mode, execute, log, exc,
          firstFail, prevLog, runNo, edits, call>>

\* ------------------------------------------------------------------------
\* Bounds of the model
\* ------------------------------------------------------------------------
MaxRows == 4        \* rows of a gradient-direction table on disk
MaxCols == 4        \* columns of a gradient-direction table on disk
MaxSlices == 6      \* entries of a SliceTiming list
MaxTime == 2        \* distinct timestamps are 0..MaxTime
MaxVols == 5        \* volumes of an image handed to extract_b0_volumes
NSessions == 2      \* sessions of the dataset
MaxRuns == 2        \* invocations of the program in one behaviour
MaxEdits == 1       \* changes of the raw data in one behaviour

\* ------------------------------------------------------------------------
\* Results of a call: a value, or the exception it raised
\* ------------------------------------------------------------------------
Ok(v) == [exc |-> "none", val |-> v]
Raise(e) == [exc |-> e, val |-> <<>>]

\* ------------------------------------------------------------------------
\* Numeric tables (np.loadtxt / np.savetxt)
\* ------------------------------------------------------------------------
\* A table on disk is a sequence of rows, every row of the same length >= 1.
NRows(m) == Len(m)
NCols(m) == Len(m[1])

\* np.loadtxt(f) with the default ndmin=0 squeezes axes of length one:
\* a single row or a single column loads as a 1-D array, a single number
\* as a 0-d array.
loadtxt(m) ==
    IF NRows(m) = 1 /\ NCols(m) = 1
    THEN [ndim |-> 0, shape |-> <<>>, data |-> m]
    ELSE IF NRows(m) = 1 \/ NCols(m) = 1
    THEN [ndim |-> 1, shape |-> <<NRows(m) * NCols(m)>>, data |-> m]
    ELSE [ndim |-> 2, shape |-> <<NRows(m), NCols(m)>>, data |-> m]

\* arr.T
Transpose(m) == [j \in 1..NCols(m) |-> [i \in 1..NRows(m) |-> m[i][j]]]

\* fmt='%.8f': values are kept in units of 1e-9 and written rounded to 1e-8.
Fmt8(v) == ((v + 5) \div 10) * 10

\* np.savetxt(out_bvec, bvecs, fmt='%.8f')
savetxt8(m) == [i \in 1..NRows(m) |-> [j \in 1..NCols(m) |-> Fmt8(m[i][j])]]

\* The body of concat_bvecs' loop for one file.
LoadBvecNoShapeCheck(m) ==
    LET arr == loadtxt(m) IN
    IF arr.ndim = 1 THEN Raise("ValueError")
    ELSE IF arr.ndim = 0 THEN Raise("IndexError")
    ELSE IF arr.shape[1] = 3 THEN Ok(arr.data)
    ELSE Ok(Transpose(arr.data))

LoadBvec(m) ==
    LET arr == loadtxt(m) IN
    IF arr.ndim = 1 THEN Raise("ValueError")
    ELSE IF arr.ndim = 0 THEN Raise("IndexError")     \* arr.shape[0] of a 0-d array
    ELSE IF arr.shape[1] = 3 THEN Ok(arr.data)
    ELSE IF arr.shape[2] = 3 THEN Ok(Transpose(arr.data))
    ELSE Raise("ValueError")

\* np.hstack of arrays that all have the same number of rows
hstack2(a, b) == [i \in 1..NRows(a) |-> a[i] \o b[i]]

\* np.hstack needs equal row counts
hstack(a, b) ==
    IF NRows(a) = NRows(b) THEN Ok(hstack2(a, b)) ELSE Raise("ValueError")

\* concat_bvecs([f1, f2], out_bvec): the table written to out_bvec, or the
\* exception raised before anything is written.
concat_bvecs(f1, f2) ==
    LET a == LoadBvec(f1) IN
    IF a.exc # "none" THEN Raise(a.exc)
    ELSE LET b == LoadBvec(f2) IN
         IF b.exc # "none" THEN Raise(b.exc)
         ELSE LET h == hstack(a.val, b.val) IN
              IF h.exc # "none" THEN Raise(h.exc)
              ELSE Ok(savetxt8(h.val))

\* the files read in the wrong order
concat_bvals_swapped(t1, t2) == t2 \o t1

\* concat_bvals([f1, f2], out_bval): fb.read().split() of each file, joined.
concat_bvals(t1, t2) == t1 \o t2

\* ------------------------------------------------------------------------
\* Gradient-strength tokens (float(x))
\* ------------------------------------------------------------------------
BvalTokens == {"0", "0.0", "5", "1000", "2000"}

\* float(tok)
Float(tok) ==
    CASE tok = "0" -> 0
      [] tok = "0.0" -> 0
      [] tok = "5" -> 5
      [] tok = "1000" -> 1000
      [] tok = "2000" -> 2000

\* ------------------------------------------------------------------------
\* generate_slspec
\* ------------------------------------------------------------------------
RECURSIVE ArgSortsOf(_, _)
\* Every order in which the (0-based) slice indices of `left` can be listed
\* by increasing timestamp.  np.argsort's default kind is not stable, so the
\* order among equal timestamps is whatever the build produces.
ArgSortsOf(times, left) ==
    IF left = {} THEN {<<>>}
    ELSE LET mins == {i \in left : \A j \in left : times[i + 1] <= times[j + 1]}
         IN  UNION {{<<i>> \o rest : rest \in ArgSortsOf(times, left \ {i})} : i \in mins}

ArgSorts(times) == ArgSortsOf(times, 0..(Len(times) - 1))

\* np.sum(np.diff(np.sort(slicetimes)) != 0) + 1, from the argsort order
NGroups(times, sindx) ==
    Cardinality({k \in 1..(Len(sindx) - 1) :
                    times[sindx[k] + 1] # times[sindx[k + 1] + 1]}) + 1

\* sindx.reshape((mb, cols)): numpy's default C (row-major) order
reshape(sindx, mb, cols) ==
    [a \in 1..mb |-> [b \in 1..cols |-> sindx[(a - 1) * cols + b]]]

\* The table generate_slspec saves for a non-empty SliceTiming list, given
\* the order np.argsort returned; ValueError when the reshape does not fit.
slspec_table(times, sindx) ==
    LET n == Len(times)
        n_groups == NGroups(times, sindx)
        mb == n \div n_groups
        cols == n \div mb
    IN  IF mb * cols # n THEN Raise("ValueError")
        ELSE Ok(Transpose(reshape(sindx, mb, cols)))

\* ------------------------------------------------------------------------
\* Files
\* ------------------------------------------------------------------------
File(c) == [ex |-> TRUE, c |-> c]
\* A path that does not exist, for each kind of content
AbsImg == [ex |-> FALSE, c |-> [ndim |-> 0, vols |-> <<>>]]
AbsSeq == [ex |-> FALSE, c |-> <<>>]
AbsMeta == [ex |-> FALSE, c |-> [hasTrt |-> FALSE, trt |-> 0, hasSt |-> FALSE, st |-> <<>>]]

Img(ndim, vols) == File([ndim |-> ndim, vols |-> vols])

\* get_nvols(nifti_path) of an existing image
get_nvols(img) == IF img.ndim = 3 THEN 1 ELSE Len(img.vols)

\* ------------------------------------------------------------------------
\* extract_b0_volumes
\* ------------------------------------------------------------------------
RECURSIVE B0From(_, _)
\* the comprehension stopping at the first zero
B0FromFirstOnly(bvals, k) ==
    IF k > Len(bvals) THEN <<>>
    ELSE IF Float(bvals[k]) = 0 THEN <<k - 1>>
    ELSE B0From(bvals, k + 1)

\* [i for i, b in enumerate(bvals) if b == 0.0], 0-based, from position k
B0From(bvals, k) ==
    IF k > Len(bvals) THEN <<>>
    ELSE IF Float(bvals[k]) = 0 THEN <<k - 1>> \o B0From(bvals, k + 1)
    ELSE B0From(bvals, k + 1)

b0_indices(bvals) == B0From(bvals, 1)

\* data[..., b0_indices]
TakeVols(vols, idx) == [k \in 1..Len(idx) |-> vols[idx[k] + 1]]

\* extract_b0_volumes(combined_nii, combined_bval, combined_json, out_b0_nii,
\* out_b0_json): the two output files after the call and the exception
\* raised, if any.  out_nii and out_json are the files as they were before.
extract_b0_volumes(nii, bval, json, out_nii, out_json) ==
    LET Res(e, n, j, w) == [exc |-> e, nii |-> n, json |-> j, wrote |-> w] IN
    IF ~bval.ex THEN Res("FileNotFoundError", out_nii, out_json, <<>>)
    ELSE LET idx == b0_indices(bval.c) IN
    IF idx = <<>> THEN Res("none", out_nii, out_json, <<>>)
    ELSE IF ~nii.ex THEN Res("FileNotFoundError", out_nii, out_json, <<>>)
    ELSE IF nii.c.ndim # 4 THEN Res("ValueError", out_nii, out_json, <<>>)
    ELSE IF \E k \in 1..Len(idx) : idx[k] >= Len(nii.c.vols)
    THEN Res("IndexError", out_nii, out_json, <<>>)
    ELSE LET b0 == Img(4, TakeVols(nii.c.vols, idx)) IN
    IF ~json.ex THEN Res("FileNotFoundError", b0, out_json, <<"nii">>)
    ELSE Res("none", b0, json, <<"nii", "json">>)

\* ------------------------------------------------------------------------
\* Step 1: step1_combine_and_extract_b0, one session of its loop
\* ------------------------------------------------------------------------
\* While a session is processed: d its derivatives directory, exc the
\* exception raised so far, ev the events so far.
Ev(kind, s, what) == <<kind, s, what>>
Did(st, kind, s, what) == Append(st.ev, Ev(kind, s, what))

\* np.concatenate([img1.get_fdata(), img2.get_fdata()], axis=3) and save
S1Combine(r, s, st) ==
    IF r.run1.nii.c.ndim # 4 \/ r.run2.nii.c.ndim # 4
    THEN [st EXCEPT !.exc = "AxisError", !.d.dir = TRUE]
    ELSE [st EXCEPT !.d.dir = TRUE,
                    !.d.comb_nii = Img(4, r.run1.nii.c.vols \o r.run2.nii.c.vols),
                    !.ev = Did(st, "write", s, "comb_nii")]

\* copy_and_rename(run1_json, out_json)
S1Json(r, s, st) ==
    IF st.exc # "none" THEN st
    ELSE IF r.run1.json.ex
    THEN [st EXCEPT !.d.comb_json = r.run1.json, !.ev = Did(st, "write", s, "comb_json")]
    ELSE [st EXCEPT !.ev = Did(st, "warn", s, "json")]

S1Bval(r, s, st) ==
    IF st.exc # "none" THEN st
    ELSE IF r.run1.bval.ex /\ r.run2.bval.ex
    THEN [st EXCEPT !.d.comb_bval = File(concat_bvals(r.run1.bval.c, r.run2.bval.c)),
                    !.ev = Did(st, "write", s, "comb_bval")]
    ELSE [st EXCEPT !.ev = Did(st, "warn", s, "bval")]

S1Bvec(r, s, st) ==
    IF st.exc # "none" THEN st
    ELSE IF r.run1.bvec.ex /\ r.run2.bvec.ex
    THEN LET res == concat_bvecs(r.run1.bvec.c, r.run2.bvec.c) IN
         IF res.exc # "none" THEN [st EXCEPT !.exc = res.exc]
         ELSE [st EXCEPT !.d.comb_bvec = File(res.val),
                         !.ev = Did(st, "write", s, "comb_bvec")]
    ELSE [st EXCEPT !.ev = Did(st, "warn", s, "bvec")]

S1Extract(s, st) ==
    IF st.exc # "none" THEN st
    ELSE LET x == extract_b0_volumes(st.d.comb_nii, st.d.comb_bval, st.d.comb_json,
                                     st.d.ap_b0_nii, st.d.ap_b0_json)
         IN  [st EXCEPT !.exc = x.exc, !.d.ap_b0_nii = x.nii, !.d.ap_b0_json = x.json,
                        !.ev = IF x.wrote # <<>> THEN Did(st, "write", s, "ap_b0_nii")
                               ELSE IF x.exc = "none" THEN Did(st, "warn", s, "no_b0")
                               ELSE st.ev]

\* the `if run1 and run2:` block
S1AP(r, s, st) ==
    IF r.run1.nii.ex /\ r.run2.nii.ex
    THEN S1Extract(s, S1Bvec(r, s, S1Bval(r, s, S1Json(r, s, S1Combine(r, s, st)))))
    ELSE st

\* the `if pa_nii:` block
S1PA(r, s, st) ==
    IF st.exc # "none" \/ ~r.pa.nii.ex THEN st
    ELSE LET a == [st EXCEPT !.d.dir = TRUE, !.d.pa_b0_nii = r.pa.nii,
                             !.ev = Did(st, "write", s, "pa_b0_nii")]
         IN  IF r.pa.json.ex
             THEN [a EXCEPT !.d.pa_b0_json = r.pa.json]
             ELSE [a EXCEPT !.ev = Did(a, "warn", s, "pa_json")]

\* The body of step 1's loop for session s
step1_session(r, s, st) ==
    IF ~r.dwi THEN st ELSE S1PA(r, s, S1AP(r, s, st))

\* ------------------------------------------------------------------------
\* Step 2: step2_make_topup, one session of its loop
\* ------------------------------------------------------------------------
\* os.cpu_count() or 8 on the host
NThr == 8

\* data[..., np.newaxis] of a 3-D image: one volume
As4D(img) == img.vols

\* concat_topup_inputs(ap_b0, pa_b0, out_path)
concat_topup_inputs(ap, pa) == Img(4, As4D(ap) \o As4D(pa))

FwdRow(trt) == <<0, -1, 0, trt>>
RevRow(trt) == <<0, 1, 0, trt>>

\* the rows written to params_out
params_rows(n_ap, n_total, trt) ==
    LET n_pa == n_total - n_ap IN
    [k \in 1..n_ap |-> FwdRow(trt)] \o [k \in 1..(IF n_pa > 0 THEN n_pa ELSE 0) |-> RevRow(trt)]

\* the command written to cmd_file
topup_cmd(s) == <<"topup", s, NThr>>

\* the merge without the test for an existing merged input
S2MergeAlways(s, st) ==
    [st EXCEPT !.d.topup_input = concat_topup_inputs(st.d.ap_b0_nii.c, st.d.pa_b0_nii.c),
               !.ev = Did(st, "merge", s, "topup_input")]

\* `if not topup_input.exists(): concat_topup_inputs(...)`
S2Merge(s, st) ==
    IF st.d.topup_input.ex THEN st
    ELSE [st EXCEPT !.d.topup_input = concat_topup_inputs(st.d.ap_b0_nii.c, st.d.pa_b0_nii.c),
                    !.ev = Did(st, "merge", s, "topup_input")]

\* from `n_ap = get_nvols(ap_b0_nii)` to the write of cmd_file
S2Params(s, st) ==
    LET rows == params_rows(get_nvols(st.d.ap_b0_nii.c), get_nvols(st.d.topup_input.c),
                            st.d.comb_json.c.trt)
        a == [st EXCEPT !.d.params = File(rows), !.ev = Did(st, "write", s, "params")]
    IN  [a EXCEPT !.d.topup_cmd = File(topup_cmd(s)), !.ev = Did(a, "write", s, "topup_cmd")]

\* The body of step 2's loop for session s
step2_session(s, st) ==
    IF ~st.d.dir THEN st
    ELSE LET a == [st EXCEPT !.d.cnf = File(<<>>), !.ev = Did(st, "write", s, "cnf")] IN
    IF ~(a.d.ap_b0_nii.ex /\ a.d.pa_b0_nii.ex)
    THEN [a EXCEPT !.ev = Did(a, "skip", s, "b0")]
    ELSE LET b == S2Merge(s, a) IN
    IF ~b.d.comb_json.ex THEN [b EXCEPT !.ev = Did(b, "skip", s, "json")]
    ELSE IF ~b.d.comb_json.c.hasTrt THEN [b EXCEPT !.ev = Did(b, "skip", s, "trt")]
    ELSE S2Params(s, b)

\* ------------------------------------------------------------------------
\* Step 3: step3_run_eddy, one session of its loop
\* ------------------------------------------------------------------------
ExtTools == {"topup", "fslmaths", "mri_synthstrip", "eddy_cuda"}

\* run_cmd(cmd, cwd) when the command raises instead of being caught
run_cmd_uncaught(s, tool, ok, st) ==
    IF st.exc # "none" THEN st
    ELSE LET a == [st EXCEPT !.ev = Did(st, "run", s, tool)] IN
         IF ok THEN a
         ELSE [a EXCEPT !.exc = "CalledProcessError",
                        !.fail = IF st.fail = <<>> THEN <<s, tool>> ELSE st.fail]

\* run_cmd(cmd, cwd): subprocess.run(..., check=True); ok is whether the
\* command exits with status 0.  CalledProcessError is caught and printed.
run_cmd(s, tool, ok, st) ==
    IF st.exc # "none" THEN st
    ELSE LET a == [st EXCEPT !.ev = Did(st, "run", s, tool)] IN
         IF ok THEN a
         ELSE [a EXCEPT !.fail = IF st.fail = <<>> THEN <<s, tool>> ELSE st.fail]

\* 1. show and, with --execute, run the TOPUP command; a successful topup
\* writes its --iout image (fmap_mag)
S3Topup(s, exe, o, st) ==
    LET a == [st EXCEPT !.ev = Did(st, "show", s, "topup_cmd")] IN
    IF ~exe THEN a
    ELSE LET b == run_cmd(s, "topup", o["topup"], a) IN
         IF b.exc = "none" /\ o["topup"] THEN [b EXCEPT !.d.fmap_mag = File(<<>>)] ELSE b

\* 2. with the volumes counted in the AP reference set
S3IndicesOfRef(s, st) ==
    IF st.exc # "none" THEN st
    ELSE IF st.d.comb_nii.ex
    THEN [st EXCEPT !.d.indices = File([k \in 1..get_nvols(st.d.ap_b0_nii.c) |-> 1]),
                    !.ev = Did(st, "write", s, "indices")]
    ELSE [st EXCEPT !.ev = Did(st, "warn", s, "indices")]

\* 2. indices
S3Indices(s, st) ==
    IF st.exc # "none" THEN st
    ELSE IF st.d.comb_nii.ex
    THEN [st EXCEPT !.d.indices = File([k \in 1..get_nvols(st.d.comb_nii.c) |-> 1]),
                    !.ev = Did(st, "write", s, "indices")]
    ELSE [st EXCEPT !.ev = Did(st, "warn", s, "indices")]

\* 2b. generate_slspec(json_file, slspec_file); sindx is np.argsort's answer
S3Slspec(s, sindx, st) ==
    IF st.exc # "none" THEN st
    ELSE IF ~st.d.comb_json.ex THEN [st EXCEPT !.ev = Did(st, "warn", s, "slspec_json")]
    ELSE IF ~st.d.comb_json.c.hasSt THEN [st EXCEPT !.ev = Did(st, "warn", s, "SliceTiming")]
    ELSE LET res == slspec_table(st.d.comb_json.c.st, sindx) IN
         IF res.exc # "none" THEN [st EXCEPT !.exc = res.exc]
         ELSE [st EXCEPT !.d.slspec = File(res.val), !.ev = Did(st, "write", s, "slspec")]

\* 3. and 4. fslmaths and mri_synthstrip on fmap_mag
S3Mag(s, o, st) ==
    IF st.exc # "none" THEN st
    ELSE IF st.d.fmap_mag.ex
    THEN run_cmd(s, "mri_synthstrip", o["mri_synthstrip"],
                 run_cmd(s, "fslmaths", o["fslmaths"], st))
    ELSE [st EXCEPT !.ev = Did(st, "warn", s, "fmap_mag")]

\* the command written to eddy_cmd_file
eddy_cmd(s) == <<"eddy_cuda", s>>

\* 5. with the command run before its record is written
S3EddyRunFirst(s, exe, o, st) ==
    IF st.exc # "none" THEN st
    ELSE LET a == IF exe THEN run_cmd(s, "eddy_cuda", o["eddy_cuda"], st) ELSE st
         IN  [a EXCEPT !.d.eddy_cmd = File(eddy_cmd(s)),
                       !.ev = Did(a, "write", s, "eddy_cmd")]

\* 5. write the eddy command and, with --execute, run it
S3Eddy(s, exe, o, st) ==
    IF st.exc # "none" THEN st
    ELSE LET a == [st EXCEPT !.d.eddy_cmd = File(eddy_cmd(s)),
                             !.ev = Did(st, "write", s, "eddy_cmd")]
         IN  IF exe THEN run_cmd(s, "eddy_cuda", o["eddy_cuda"], a) ELSE a

\* The body of step 3's loop for session s
step3_session(s, exe, o, sindx, st) ==
    IF ~st.d.dir THEN st
    ELSE IF ~st.d.topup_cmd.ex THEN [st EXCEPT !.ev = Did(st, "skip", s, "topup_cmd")]
    ELSE S3Eddy(s, exe, o, S3Mag(s, o, S3Slspec(s, sindx,
             S3Indices(s, S3Topup(s, exe, o, st)))))

\* ------------------------------------------------------------------------
\* check_external_commands
\* ------------------------------------------------------------------------
AllTools == {"fslmaths", "topup", "eddy_cuda10.2", "eddy_cuda", "mri_synthstrip"}
Required == {"fslmaths", "topup", "eddy_cuda10.2", "mri_synthstrip"}

\* the list `missing` for the tools `inst` that shutil.which finds
missing_tools(inst) ==
    (Required \ inst)
    \cup (IF "eddy_cuda10.2" \notin inst /\ "eddy_cuda" \notin inst
          THEN {"eddy_cuda10.2 or eddy_cuda"} ELSE {})

\* ------------------------------------------------------------------------
\* The raw data of a session
\* ------------------------------------------------------------------------
\* A table of r rows and c columns of file f, every entry distinct and some
\* with a ninth decimal.
Entry(f, i, j) == f * 10000 + i * 1000 + j * 100 + 7 * ((i + j) % 2)
Table(f, r, c) == [i \in 1..r |-> [j \in 1..c |-> Entry(f, i, j)]]

\* File names follow the convention step 2 and step 3 rebuild their paths
\* from (sub-X_ses-Y_acq-EP2D_dir-AP_run-N_part-mag_dwi).
Vols(tag, n) == [i \in 1..n |-> <<tag, i>>]

Meta(hasTrt, hasSt, st) == [hasTrt |-> hasTrt, trt |-> 50, hasSt |-> hasSt, st |-> st]
NomMeta == Meta(TRUE, TRUE, <<0, 1>>)

\* An acquired run of Len(bv) volumes with its three companions; its
\* gradient-direction table is 3 x N.
MkRun(tag, f, bv, meta) ==
    [nii |-> Img(4, Vols(tag, Len(bv))), bval |-> File(bv),
     bvec |-> File(Table(f, 3, Len(bv))), json |-> File(meta)]
NoRun == [nii |-> AbsImg, bval |-> AbsSeq, bvec |-> AbsSeq, json |-> AbsMeta]

MkPA(ndim, n) == [nii |-> Img(ndim, Vols("PA", n)), json |-> File(NomMeta)]
NoPA == [nii |-> AbsImg, json |-> AbsMeta]

MkSession(run1, run2, pa) == [dwi |-> TRUE, run1 |-> run1, run2 |-> run2, pa |-> pa]

NomRun1 == MkRun("AP1", 1, <<"0", "1000">>, NomMeta)
NomRun2 == MkRun("AP2", 2, <<"0", "1000">>, NomMeta)
NomPA == MkPA(4, 2)
Nominal == MkSession(NomRun1, NomRun2, NomPA)

\* The nominal session and the sessions that differ from it in one respect.
RawSessions ==
    {Nominal,
     \* other gradient-strength schedules
     MkSession(NomRun1, MkRun("AP2", 2, <<"0.0", "0", "1000">>, NomMeta), NomPA),
     MkSession(MkRun("AP1", 1, <<"1000", "5">>, NomMeta),
               MkRun("AP2", 2, <<"5", "1000">>, NomMeta), NomPA),
     MkSession(MkRun("AP1", 1, <<"0">>, NomMeta), NomRun2, NomPA),
     \* N x 3 gradient-direction tables
     MkSession([NomRun1 EXCEPT !.bvec = File(Table(1, 2, 3))],
               [NomRun2 EXCEPT !.bvec = File(Table(2, 2, 3))], NomPA),
     \* a companion of a run is missing
     MkSession([NomRun1 EXCEPT !.bval = AbsSeq], NomRun2, NomPA),
     MkSession(NomRun1, [NomRun2 EXCEPT !.bvec = AbsSeq], NomPA),
     MkSession([NomRun1 EXCEPT !.json = AbsMeta], NomRun2, NomPA),
     \* sidecar fields
     MkSession([NomRun1 EXCEPT !.json = File(Meta(FALSE, TRUE, <<0, 1>>))], NomRun2, NomPA),
     MkSession([NomRun1 EXCEPT !.json = File(Meta(TRUE, FALSE, <<>>))], NomRun2, NomPA),
     MkSession([NomRun1 EXCEPT !.json = File(Meta(TRUE, TRUE, <<0, 1, 0, 1>>))], NomRun2, NomPA),
     MkSession([NomRun1 EXCEPT !.json = File(Meta(TRUE, TRUE, <<0, 0, 0, 1, 1>>))], NomRun2, NomPA),
     \* the reverse-direction run
     MkSession(NomRun1, NomRun2, NoPA),
     MkSession(NomRun1, NomRun2, MkPA(3, 1)),
     MkSession(NomRun1, NomRun2, MkPA(4, 3)),
     \* a single forward run, no dwi directory
     MkSession(NomRun1, NoRun, NomPA),
     [Nominal EXCEPT !.dwi = FALSE]}

\* Sessions after the first hold the nominal data.
RawOf(s) == IF s = 1 THEN RawSessions ELSE {Nominal}

Sessions == 1..NSessions

EmptyDrv ==
    [dir |-> FALSE,
     comb_nii |-> AbsImg, comb_json |-> AbsMeta, comb_bval |-> AbsSeq, comb_bvec |-> AbsSeq,
     ap_b0_nii |-> AbsImg, ap_b0_json |-> AbsMeta, pa_b0_nii |-> AbsImg, pa_b0_json |-> AbsMeta,
     cnf |-> AbsSeq, topup_input |-> AbsImg, params |-> AbsSeq, topup_cmd |-> AbsSeq,
     indices |-> AbsSeq, slspec |-> AbsSeq, eddy_cmd |-> AbsSeq, fmap_mag |-> AbsSeq]

\* ------------------------------------------------------------------------
\* The program: main()
\* ------------------------------------------------------------------------
Modes == {"step-1", "step-2", "step-3", "all"}
Terminal == {"idle", "done", "crashed", "exit1"}

\* What shutil.which may find: every tool, or all but one.
PathOptions == {AllTools \ X : X \in {Y \in SUBSET AllTools : Cardinality(Y) <= 1}}

NoCall == [fn |-> "none", arg |-> <<>>, res |-> [exc |-> "none", val |-> <<>>]]

InitFiles ==
    /\ raw \in {f \in [Sessions -> RawSessions] : \A s \in Sessions : f[s] \in RawOf(s)}
    /\ drv = [s \in Sessions |-> EmptyDrv]
    /\ derivDir = FALSE

InitProc ==
    /\ installed = AllTools
    /\ pc = "idle"
    /\ cur = 1
    /\ mode = "none"
    /\ execute = FALSE
    /\ log = <<>>
    /\ exc = "none"
    /\ firstFail = <<>>
    /\ prevLog = <<>>
    /\ runNo = 0
    /\ edits = 0

Init == InitFiles /\ InitProc /\ call = NoCall

\* main() up to the dispatch: check_external_commands(), parse_args(), and
\* the entry of the first stage (step 1 makes the derivatives directory,
\* steps 2 and 3 return at once when it does not exist).
Start(m, e, inst) ==
    /\ pc \in Terminal
    /\ runNo < MaxRuns
    /\ runNo' = runNo + 1
    /\ installed' = inst
    /\ log' = <<>>
    /\ exc' = "none"
    /\ firstFail' = <<>>
    /\ prevLog' = (IF pc = "done" THEN log ELSE <<>>)
    /\ cur' = 1
    /\ IF missing_tools(inst) # {}
       THEN /\ pc' = "exit1"
            /\ mode' = "none"
            /\ execute' = FALSE
            /\ UNCHANGED derivDir
       ELSE /\ mode' = m
            /\ execute' = e
            /\ derivDir' = (derivDir \/ m \in {"step-1", "all"})
            /\ pc' = CASE m \in {"step-1", "all"} -> "step1"
                       [] m = "step-2" -> IF derivDir THEN "step2" ELSE "done"
                       [] m = "step-3" -> IF derivDir THEN "step3" ELSE "done"
    /\ UNCHANGED <<raw, drv, edits, call>>

\* Where main() goes when the loop of stage `stage` has ended.
AfterStage(stage) ==
    IF mode # "all" THEN "done"
    ELSE CASE stage = "step1" -> "step2"
           [] stage = "step2" -> "step3"
           [] stage = "step3" -> "done"

\* The effect of one pass of a stage's loop that ended in state st.
Pass(stage, st) ==
    /\ drv' = [drv EXCEPT ![cur] = st.d]
    /\ log' = st.ev
    /\ firstFail' = st.fail
    /\ exc' = st.exc
    /\ IF st.exc # "none"
       THEN pc' = "crashed" /\ cur' = cur
       ELSE IF cur < NSessions
       THEN pc' = pc /\ cur' = cur + 1
       ELSE pc' = AfterStage(stage) /\ cur' = 1
    /\ UNCHANGED <<raw, derivDir, installed, mode, execute, prevLog, runNo, edits, call>>

Enter(stage) ==
    [d |-> drv[cur], exc |-> "none", fail |-> firstFail,
     ev |-> Append(log, Ev("visit", cur, stage))]

Step1 ==
    /\ pc = "step1"
    /\ \E st \in {step1_session(raw[cur], cur, Enter("step1"))} : Pass("step1", st)

Step2 ==
    /\ pc = "step2"
    /\ \E st \in {step2_session(cur, Enter("step2"))} : Pass("step2", st)

\* Whether the run logged in ev ran `tool` for session s
Ran(ev, s, tool) == \E k \in 1..Len(ev) : ev[k] = Ev("run", s, tool)

Step3 ==
    /\ pc = "step3"
    /\ \E o \in [ExtTools -> BOOLEAN] :
       \E sindx \in ArgSorts(IF drv[cur].comb_json.c.hasSt THEN drv[cur].comb_json.c.st ELSE <<>>) :
       \E st \in {step3_session(cur, execute, o, sindx, Enter("step3"))} :
          /\ \A t \in ExtTools : ~Ran(st.ev, cur, t) => o[t]
          /\ "eddy_cuda" \notin installed => ~o["eddy_cuda"] \/ ~Ran(st.ev, cur, "eddy_cuda")
          /\ Pass("step3", st)

\* Between invocations the raw data of the first session is replaced; the
\* invocation that ended is over.
Edit(r) ==
    /\ pc \in Terminal
    /\ runNo < MaxRuns
    /\ edits < MaxEdits
    /\ r # raw[1]
    /\ raw' = [raw EXCEPT ![1] = r]
    /\ edits' = edits + 1
    /\ pc' = "idle"
    /\ cur' = 1
    /\ mode' = "none"
    /\ execute' = FALSE
    /\ log' = <<>>
    /\ exc' = "none"
    /\ firstFail' = <<>>
    /\ prevLog' = <<>>
    /\ UNCHANGED <<drv, derivDir, installed, runNo, call>>

Next ==
    \/ \E m \in Modes, e \in BOOLEAN, inst \in PathOptions :
          (m \in {"step-1", "step-2"} => ~e) /\ Start(m, e, inst)
    \/ Step1
    \/ Step2
    \/ Step3
    \/ \E r \in RawSessions : Edit(r)

Spec == Init /\ [][Next]_vars

\* The end-to-end scenario: AP run-1 of 5 volumes with strengths
\* 0 0 1000 1000 0, AP run-2 of 5 volumes with strengths 0 1000 1000 0 0,
\* one PA run of 2 volumes.
E2ESession ==
    MkSession(MkRun("AP1", 1, <<"0", "0", "1000", "1000", "0">>, NomMeta),
              MkRun("AP2", 2, <<"0", "1000", "1000", "0", "0">>, NomMeta),
              MkPA(4, 2))

InitE2E ==
    /\ raw = [s \in Sessions |-> IF s = 1 THEN E2ESession ELSE Nominal]
    /\ drv = [s \in Sessions |-> EmptyDrv]
    /\ derivDir = FALSE
    /\ InitProc
    /\ call = NoCall

SpecE2E == InitE2E /\ [][Next]_vars

\* ------------------------------------------------------------------------
\* What an invocation did
\* ------------------------------------------------------------------------
Wrote(ev, s, what) == \E k \in 1..Len(ev) : ev[k] = Ev("write", s, what)
Visited(ev, s, stage) == \E k \in 1..Len(ev) : ev[k] = Ev("visit", s, stage)
BothRuns(r) == r.dwi /\ r.run1.nii.ex /\ r.run2.nii.ex

\* ------------------------------------------------------------------------
\* C1
\* ------------------------------------------------------------------------
\* a run of N volumes with N strength tokens and a 3 x N direction table
AlignedRun(run) ==
    /\ run.nii.c.ndim = 4
    /\ run.bval.ex /\ Len(run.bval.c) = Len(run.nii.c.vols)
    /\ run.bvec.ex /\ NRows(run.bvec.c) = 3 /\ NCols(run.bvec.c) = Len(run.nii.c.vols)

\* C1: once step 1 has processed a session whose AP run-1 and run-2 each
\* have N volumes, N strength tokens and N direction columns, the combined
\* image, strength table and direction table hold run-1's N1 entries
\* followed by run-2's N2 entries (directions to the written precision).
C1_CombinedIsRun1ThenRun2 ==
    \A s \in Sessions :
        (/\ Visited(log, s, "step1") /\ BothRuns(raw[s])
         /\ AlignedRun(raw[s].run1) /\ AlignedRun(raw[s].run2)) =>
        LET r1 == raw[s].run1
            r2 == raw[s].run2
            n1 == Len(r1.nii.c.vols)
            n2 == Len(r2.nii.c.vols)
            d == drv[s]
        IN  /\ d.comb_nii.ex /\ d.comb_nii.c.vols = r1.nii.c.vols \o r2.nii.c.vols
            /\ d.comb_bval.ex /\ d.comb_bval.c = r1.bval.c \o r2.bval.c
            /\ d.comb_bvec.ex
            /\ NRows(d.comb_bvec.c) = 3 /\ NCols(d.comb_bvec.c) = n1 + n2
            /\ \A i \in 1..3 : \A j \in 1..(n1 + n2) :
                  d.comb_bvec.c[i][j] =
                      Fmt8(IF j <= n1 THEN r1.bvec.c[i][j] ELSE r2.bvec.c[i][j - n1])

\* ------------------------------------------------------------------------
\* C4
\* ------------------------------------------------------------------------
IsFwdVol(v) == v[1] \in {"AP1", "AP2"}
CountRows(p, row) == Cardinality({k \in 1..Len(p) : p[k] = row})

\* C4: whenever step 2 has written the parameter table of a session, the
\* table has one row per volume of the merged field-map input, a forward
\* row for a forward volume and a reverse row for a reverse volume, and as
\* many forward (reverse) rows as the AP (PA) reference set has volumes.
C4_ParamsFollowMergedInput ==
    \A s \in Sessions :
        Wrote(log, s, "params") =>
        LET d == drv[s]
            p == d.params.c
            m == d.topup_input.c.vols
            trt == d.comb_json.c.trt
        IN  /\ Len(p) = Len(m)
            /\ \A k \in 1..Len(p) :
                  p[k] = IF IsFwdVol(m[k]) THEN FwdRow(trt) ELSE RevRow(trt)
            /\ CountRows(p, FwdRow(trt)) = get_nvols(d.ap_b0_nii.c)
            /\ CountRows(p, RevRow(trt)) = get_nvols(d.pa_b0_nii.c)

\* ------------------------------------------------------------------------
\* C5
\* ------------------------------------------------------------------------
\* the first invocation, in mode all, has ended on the scenario's data
E2EDone == runNo = 1 /\ mode = "all" /\ pc = "done" /\ raw[1] = E2ESession

\* C5 as claimed: 10 combined volumes, 4 AP reference volumes, 2 PA
\* reference volumes, 6 merged volumes, 4 forward then 2 reverse rows.
C5_FourForwardTwoReverse ==
    E2EDone =>
        LET d == drv[1] IN
        /\ get_nvols(d.comb_nii.c) = 10
        /\ get_nvols(d.ap_b0_nii.c) = 4
        /\ get_nvols(d.pa_b0_nii.c) = 2
        /\ get_nvols(d.topup_input.c) = 6
        /\ d.params.c = [k \in 1..4 |-> FwdRow(50)] \o [k \in 1..2 |-> RevRow(50)]

\* C5 as amended: 10 combined volumes; the AP reference set holds the six
\* zero-strength volumes (run-1's volumes 1, 2, 5 and run-2's 1, 4, 5); 2 PA
\* reference volumes; 8 merged volumes, AP first; 6 forward then 2 reverse
\* rows.
C5_SixForwardTwoReverse ==
    E2EDone =>
        LET d == drv[1] IN
        /\ get_nvols(d.comb_nii.c) = 10
        /\ d.ap_b0_nii.c.vols = <<<<"AP1", 1>>, <<"AP1", 2>>, <<"AP1", 5>>,
                                  <<"AP2", 1>>, <<"AP2", 4>>, <<"AP2", 5>>>>
        /\ get_nvols(d.pa_b0_nii.c) = 2
        /\ get_nvols(d.topup_input.c) = 8
        /\ d.topup_input.c.vols = d.ap_b0_nii.c.vols \o d.pa_b0_nii.c.vols
        /\ d.params.ex
        /\ d.params.c = [k \in 1..6 |-> FwdRow(50)] \o [k \in 1..2 |-> RevRow(50)]

C5_Witness == E2EDone /\ Wrote(log, 1, "params") /\ Len(drv[1].params.c) = 8

\* ------------------------------------------------------------------------
\* C7
\* ------------------------------------------------------------------------
CompanionMissing(r) ==
    \/ ~r.run1.bval.ex \/ ~r.run2.bval.ex
    \/ ~r.run1.bvec.ex \/ ~r.run2.bvec.ex
    \/ ~r.run1.json.ex

\* C7: when step 1 has processed a session that has both AP runs and lacks
\* a companion of one of them, no error has ended the invocation, and once
\* step 1's loop is over every session has been processed.
C7_MissingCompanionNeverAborts ==
    \A s \in Sessions :
        (Visited(log, s, "step1") /\ BothRuns(raw[s]) /\ CompanionMissing(raw[s])) =>
        /\ pc # "crashed"
        /\ pc # "step1" => \A t \in Sessions : Visited(log, t, "step1")

\* ------------------------------------------------------------------------
\* C8
\* ------------------------------------------------------------------------
\* C8: an invocation without --execute runs no external command.
C8_NoCommandWithoutExecute ==
    ~execute => \A k \in 1..Len(log) : log[k][1] # "run"

\* ------------------------------------------------------------------------
\* C9
\* ------------------------------------------------------------------------
Merged(ev, s) == \E k \in 1..Len(ev) : ev[k] = Ev("merge", s, "topup_input")

\* C9: when an invocation of step 2 alone processes a session that the
\* previous invocation assembled (it wrote the session's command record)
\* and whose merged field-map input is present, it does not merge, it
\* writes the parameter table and the command record again, and every file
\* of the session is as it was after the first run.
C9_Step2Idempotent ==
    [][(/\ pc = "step2" /\ mode = "step-2"
        /\ Wrote(prevLog, cur, "topup_cmd")
        /\ drv[cur].topup_input.ex) =>
       (/\ ~Merged(log', cur)
        /\ Wrote(log', cur, "params")
        /\ Wrote(log', cur, "topup_cmd")
        /\ drv'[cur] = drv[cur])]_vars

\* the second run of step 2 has processed session 1
C9_Witness ==
    /\ runNo = 2 /\ mode = "step-2"
    /\ Wrote(prevLog, 1, "topup_cmd")
    /\ Visited(log, 1, "step2") /\ Wrote(log, 1, "topup_cmd")

\* ------------------------------------------------------------------------
\* C10
\* ------------------------------------------------------------------------
\* C10: an external command that exits non-zero never ends the invocation:
\* no invocation ends on CalledProcessError, and when an invocation in which
\* a command failed is done, step 3 has written the correction command
\* record of every session that has a field-map command record, the
\* session of the failure included.
C10_FailedCommandNeverAborts ==
    /\ exc # "CalledProcessError"
    /\ (firstFail # <<>> /\ pc = "done") =>
          \A s \in Sessions :
              (drv[s].dir /\ drv[s].topup_cmd.ex) => Wrote(log, s, "eddy_cmd")

\* topup failed for session 1 and both sessions were processed to the end
C10_Witness ==
    /\ firstFail = <<1, "topup">>
    /\ pc = "done"
    /\ Wrote(log, 1, "eddy_cmd")
    /\ Wrote(log, 2, "eddy_cmd")

\* ------------------------------------------------------------------------
\* C11
\* ------------------------------------------------------------------------
\* every occurrence of event a in ev comes before every occurrence of b
Before(ev, a, b) ==
    \A i, j \in 1..Len(ev) : (ev[i] = a /\ ev[j] = b) => i < j
In(ev, e) == \E k \in 1..Len(ev) : ev[k] = e
Step3Files == {"indices", "slspec", "eddy_cmd"}

\* C11: in an invocation with --execute, for every session: topup is run
\* whenever step 3 writes one of the index table, the slice-group table and
\* the correction command record, and before each of them; the commands run
\* in the order topup, fslmaths, mri_synthstrip, eddy; eddy runs only after
\* its command record was written.  With or without --execute, a session
\* skipped for want of a field-map command record has none of these files
\* written and no command run, and the loop goes on to the next session.
C11_Step3EventOrder ==
    \A s \in Sessions :
        /\ execute =>
              /\ \A f \in Step3Files :
                    /\ In(log, Ev("write", s, f)) => In(log, Ev("run", s, "topup"))
                    /\ Before(log, Ev("run", s, "topup"), Ev("write", s, f))
              /\ Before(log, Ev("run", s, "topup"), Ev("run", s, "fslmaths"))
              /\ Before(log, Ev("run", s, "fslmaths"), Ev("run", s, "mri_synthstrip"))
              /\ Before(log, Ev("run", s, "mri_synthstrip"), Ev("run", s, "eddy_cuda"))
              /\ Before(log, Ev("run", s, "topup"), Ev("run", s, "eddy_cuda"))
              /\ In(log, Ev("run", s, "eddy_cuda")) => In(log, Ev("write", s, "eddy_cmd"))
              /\ Before(log, Ev("write", s, "eddy_cmd"), Ev("run", s, "eddy_cuda"))
        /\ In(log, Ev("skip", s, "topup_cmd")) =>
              /\ \A f \in Step3Files : ~In(log, Ev("write", s, f))
              /\ \A t \in ExtTools : ~In(log, Ev("run", s, t))
              /\ exc = "none"
              /\ (s < NSessions /\ (pc # "step3" \/ cur > s + 1)) =>
                    In(log, Ev("visit", s + 1, "step3"))

\* session 1 was skipped for want of a command record, and session 2 went
\* through all four commands
C11_Witness ==
    /\ execute
    /\ In(log, Ev("skip", 1, "topup_cmd"))
    /\ \A t \in ExtTools : In(log, Ev("run", 2, t))
    /\ \A f \in Step3Files : In(log, Ev("write", 2, f))

\* ------------------------------------------------------------------------
\* C12
\* ------------------------------------------------------------------------
\* C12: when step 3 has written the index table of a session, the table
\* has as many entries as the combined AP image has volumes, every entry is
\* 1, and the parameter table exists and its row 1 is a forward row.
C12_IndicesPointAtForwardRow ==
    \A s \in Sessions :
        In(log, Ev("write", s, "indices")) =>
            LET d == drv[s] IN
            /\ d.indices.ex /\ d.comb_nii.ex
            /\ Len(d.indices.c) = get_nvols(d.comb_nii.c)
            /\ \A k \in 1..Len(d.indices.c) : d.indices.c[k] = 1
            /\ d.params.ex /\ Len(d.params.c) >= 1
            /\ d.params.c[1] = FwdRow(d.params.c[1][4])

\* the index table of a combined run of 2 + 3 volumes was written
C12_Witness ==
    /\ In(log, Ev("write", 1, "indices"))
    /\ Len(drv[1].comb_nii.c.vols) = 5
    /\ drv[1].indices.c = <<1, 1, 1, 1, 1>>

\* ------------------------------------------------------------------------
\* C14
\* ------------------------------------------------------------------------
\* the requirements as claimed: fslmaths, topup, mri_synthstrip and one of
\* the two eddy binaries
RequirementsMet(inst) ==
    /\ {"fslmaths", "topup", "mri_synthstrip"} \subseteq inst
    /\ ("eddy_cuda10.2" \in inst \/ "eddy_cuda" \in inst)

\* C14: an invocation ends with exit status 1 exactly when a requirement
\* is not met, either eddy binary meeting the eddy requirement, and it then
\* has processed no session.
C14_ExitIffRequirementUnmet ==
    (runNo > 0 /\ pc # "idle") =>
        /\ pc = "exit1" <=> ~RequirementsMet(installed)
        /\ pc = "exit1" => log = <<>>

\* ------------------------------------------------------------------------
\* C15
\* ------------------------------------------------------------------------
\* C15: in the derivatives of every session, whenever the combined image,
\* strength table and direction table all exist, the image's volume count,
\* the strength table's entry count and the direction table's column count
\* are equal; and an invocation that wrote the AP reference set wrote the
\* combined strength table it was extracted with.
C15_CombinedTablesAligned ==
    \A s \in Sessions :
        LET d == drv[s] IN
        /\ (d.comb_nii.ex /\ d.comb_bval.ex /\ d.comb_bvec.ex) =>
              /\ Len(d.comb_bval.c) = get_nvols(d.comb_nii.c)
              /\ NCols(d.comb_bvec.c) = get_nvols(d.comb_nii.c)
        /\ In(log, Ev("write", s, "ap_b0_nii")) => In(log, Ev("write", s, "comb_bval"))

\* ------------------------------------------------------------------------
\* C16
\* ------------------------------------------------------------------------
ImageWrites ==
    {<<"write", "comb_nii">>, <<"write", "ap_b0_nii">>, <<"write", "pa_b0_nii">>,
     <<"merge", "topup_input">>}

\* C16: an image output of a session that the previous invocation wrote
\* (the combined run, a reference set, the merged field-map input), and
\* that therefore exists, is not computed and written again by this
\* invocation.
C16_ExistingImagesNotRecomputed ==
    \A s \in Sessions : \A w \in ImageWrites :
        In(prevLog, Ev(w[1], s, w[2])) => ~In(log, Ev(w[1], s, w[2]))

\* ------------------------------------------------------------------------
\* C17
\* ------------------------------------------------------------------------
\* C17: in an invocation that passed check_external_commands, every command
\* run and the binary named in every correction command record written is
\* one of the installed tools.
C17_InvokedBinariesInstalled ==
    (runNo > 0 /\ pc \notin {"idle", "exit1"}) =>
        /\ \A k \in 1..Len(log) : log[k][1] = "run" => log[k][3] \in installed
        /\ \A s \in Sessions :
              In(log, Ev("write", s, "eddy_cmd")) => drv[s].eddy_cmd.c[1] \in installed

\* ------------------------------------------------------------------------
\* Harness for the pure helpers
\* ------------------------------------------------------------------------
Pending == [exc |-> "pending", val |-> <<>>]

BvecInputs ==
    {<<Table(1, r1, c1), Table(2, r2, c2)>> :
        r1 \in 1..MaxRows, c1 \in 1..MaxCols, r2 \in 1..MaxRows, c2 \in 1..MaxCols}

\* The helpers are called on their own: no dataset, no invocation.
NoPipeline == raw = <<>> /\ drv = <<>> /\ derivDir = FALSE /\ InitProc

InitBvecs ==
    /\ NoPipeline
    /\ call \in {[fn |-> "concat_bvecs", arg |-> a, res |-> Pending] : a \in BvecInputs}

CallConcatBvecs ==
    /\ call.fn = "concat_bvecs"
    /\ call.res = Pending
    /\ call' = [call EXCEPT !.res = concat_bvecs(call.arg[1], call.arg[2])]
    /\ UNCHANGED pvars

SpecBvecs == InitBvecs /\ [][CallConcatBvecs]_vars

\* Sequences over S of length lo..hi
SeqsOf(S, lo, hi) == UNION {[1..n -> S] : n \in lo..hi}

\* generate_slspec on a non-empty SliceTiming list
InitSlspec ==
    /\ NoPipeline
    /\ call \in {[fn |-> "generate_slspec", arg |-> t, res |-> Pending] :
                    t \in SeqsOf(0..MaxTime, 1, MaxSlices)}

CallSlspec ==
    /\ call.fn = "generate_slspec"
    /\ call.res = Pending
    /\ \E sindx \in ArgSorts(call.arg) :
          call' = [call EXCEPT !.res = slspec_table(call.arg, sindx)]
    /\ UNCHANGED pvars

SpecSlspec == InitSlspec /\ [][CallSlspec]_vars

\* extract_b0_volumes on a 4-D image of n volumes, a strength table and a
\* sidecar, with no reference image on disk yet
B0Inputs ==
    {<<Img(4, Vols("C", n)), File(bv), js>> :
        n \in 1..MaxVols, bv \in SeqsOf(BvalTokens, 0, MaxVols),
        js \in {File(NomMeta), AbsMeta}}

InitB0 ==
    /\ NoPipeline
    /\ call \in {[fn |-> "extract_b0_volumes", arg |-> a, res |-> Pending] : a \in B0Inputs}

CallExtractB0 ==
    /\ call.fn = "extract_b0_volumes"
    /\ call.res = Pending
    /\ call' = [call EXCEPT !.res =
                   extract_b0_volumes(call.arg[1], call.arg[2], call.arg[3], AbsImg, AbsMeta)]
    /\ UNCHANGED pvars

SpecB0 == InitB0 /\ [][CallExtractB0]_vars

\* ------------------------------------------------------------------------
\* C6
\* ------------------------------------------------------------------------
BvecDone == call.fn = "concat_bvecs" /\ call.res # Pending
\* a table on disk that is 3 x N or N x 3 with both sides at least 2
Is3xNorNx3(m) == NRows(m) >= 2 /\ NCols(m) >= 2 /\ (NRows(m) = 3 \/ NCols(m) = 3)
\* the columns a table contributes once normalised to 3 x N
NormCols(m) == IF NRows(m) = 3 THEN NCols(m) ELSE NRows(m)

\* C6 as claimed: concat_bvecs accepts a table only when it is 3 x N or
\* N x 3, and every 4 x N table (N >= 1, N = 3 included) and every
\* one-dimensional table makes it raise and write nothing.
C6_Every4xNRejected ==
    BvecDone =>
        /\ call.res.exc = "none" => \A k \in 1..2 : Is3xNorNx3(call.arg[k])
        /\ (\E k \in 1..2 : NRows(call.arg[k]) = 4 \/ NRows(call.arg[k]) = 1
                             \/ NCols(call.arg[k]) = 1)
              => call.res.exc # "none" /\ call.res.val = <<>>

\* C6 as amended: a table is accepted exactly when, loaded, it is
\* two-dimensional with 3 rows or 3 columns; the output then has 3 rows and
\* the sum of the inputs' normalised columns, a 3 x N table kept as it is
\* and an N x 3 table (N # 3) transposed.  Every other table, among them
\* every 4 x N table with N # 3 and every single row or column, makes the
\* call raise and write nothing.
C6_Only3xNorNx3Accepted ==
    BvecDone =>
        /\ call.res.exc = "none" <=> \A k \in 1..2 : Is3xNorNx3(call.arg[k])
        /\ call.res.exc = "none" =>
              /\ NRows(call.res.val) = 3
              /\ NCols(call.res.val) = NormCols(call.arg[1]) + NormCols(call.arg[2])
              /\ \A i \in 1..3 : \A j \in 1..NormCols(call.arg[1]) :
                    call.res.val[i][j] =
                        Fmt8(IF NRows(call.arg[1]) = 3 THEN call.arg[1][i][j]
                             ELSE call.arg[1][j][i])
        /\ (\E k \in 1..2 : (NRows(call.arg[k]) = 4 /\ NCols(call.arg[k]) # 3)
                             \/ NRows(call.arg[k]) = 1 \/ NCols(call.arg[k]) = 1)
              => call.res.exc \in {"ValueError", "IndexError"} /\ call.res.val = <<>>

\* a 4 x 2 table was rejected
C6_Witness ==
    /\ BvecDone
    /\ NRows(call.arg[1]) = 4 /\ NCols(call.arg[1]) = 2
    /\ call.res.exc = "ValueError"

\* ------------------------------------------------------------------------
\* C3
\* ------------------------------------------------------------------------
SlspecDone == call.fn = "generate_slspec" /\ call.res # Pending
Stamps(t) == {t[k] : k \in 1..Len(t)}
SharedBy(t, v) == Cardinality({k \in 1..Len(t) : t[k] = v})
\* every timestamp is shared by the same number of slices
EvenGroups(t) == \A v, w \in Stamps(t) : SharedBy(t, v) = SharedBy(t, w)

\* C3: for a slice-timing list whose timestamps are each shared by the same
\* number of slices, the table has one row per distinct timestamp, each row
\* holds the slices of one acquisition instant, and the rows come by
\* increasing timestamp.
C3_RowsShareOneInstant ==
    SlspecDone /\ EvenGroups(call.arg) =>
        LET t == call.arg
            tab == call.res.val
        IN  /\ call.res.exc = "none"
            /\ Len(tab) = Cardinality(Stamps(t))
            /\ \A r \in 1..Len(tab) :
                  /\ Len(tab[r]) = Len(t) \div Cardinality(Stamps(t))
                  /\ \A a, b \in 1..Len(tab[r]) : t[tab[r][a] + 1] = t[tab[r][b] + 1]
            /\ \A r \in 1..(Len(tab) - 1) : t[tab[r][1] + 1] < t[tab[r + 1][1] + 1]

\* ------------------------------------------------------------------------
\* C13
\* ------------------------------------------------------------------------
\* C13: for a slice-timing list whose slice count is not a multiple of its
\* number of distinct timestamps, generate_slspec raises and produces no
\* table.
C13_NonDivisibleRaises ==
    (SlspecDone /\ Len(call.arg) % Cardinality(Stamps(call.arg)) # 0) =>
        call.res.exc # "none" /\ call.res.val = <<>>

\* ------------------------------------------------------------------------
\* C2
\* ------------------------------------------------------------------------
B0Done == call.fn = "extract_b0_volumes" /\ call.res # Pending
\* the 0-based positions whose strength token reads as zero
ZeroAt(bv) == {i \in 0..(Len(bv) - 1) : bv[i + 1] \in {"0", "0.0"}}

\* C2: on a strength table aligned with the image, extract_b0_volumes writes
\* exactly the volumes whose strength is 0, in their order, with the
\* sidecar; with no such volume it writes nothing and does not raise.
C2_ExactlyZeroStrengthVolumes ==
    B0Done /\ Len(call.arg[2].c) = Len(call.arg[1].c.vols) /\ call.arg[3].ex =>
        LET vols == call.arg[1].c.vols
            Z == ZeroAt(call.arg[2].c)
            out == call.res.nii
        IN  /\ call.res.exc = "none"
            /\ Z = {} => ~out.ex /\ ~call.res.json.ex
            /\ Z # {} =>
                  /\ out.ex /\ call.res.json = call.arg[3]
                  /\ Len(out.c.vols) = Cardinality(Z)
                  /\ {out.c.vols[k] : k \in 1..Len(out.c.vols)} = {vols[i + 1] : i \in Z}
                  /\ \A k \in 1..(Len(out.c.vols) - 1) : out.c.vols[k][2] < out.c.vols[k + 1][2]

\* the table 0 1000 0 2000 0 selected volumes 0, 2 and 4
C2_Witness ==
    /\ B0Done
    /\ call.arg[2].c = <<"0", "1000", "0", "2000", "0">>
    /\ call.res.nii.ex
    /\ call.res.nii.c.vols = <<<<"C", 1>>, <<"C", 3>>, <<"C", 5>>>>

====
